---------------------------- MODULE Spec2Model ----------------------------
(***************************************************************************)
(* Model of roogle-engine/src/compare.rs: the similarity model (score),   *)
(* the declaration comparators and the recursive Type comparator, with    *)
(* the per-call unification state (generics context, substitution map).   *)
(*                                                                         *)
(* Every comparator returns a record [sims, substs, st]: the judgments it *)
(* returns, the substitution map after the call, and how the call ended:  *)
(* "ok" (returned), "panic" (Option::unwrap on None, line 280) or         *)
(* "overflow" (unbounded recursion, which ends in a stack overflow).      *)
(***************************************************************************)
EXTENDS Integers, Sequences, FiniteSets, TLC

VARIABLES
  query,      \* driver: the query every candidate is compared with
  items,      \* driver: items[k] is the candidate of comparison k
  pc,         \* driver: pc[k] is the position of comparison k in compare
  generics,   \* driver: generics[k], the generics context of comparison k
  substs,     \* driver: substs[k], the substitution map of comparison k
  sims,       \* driver: sims[k], the judgments of comparison k so far
  pos,        \* driver: pos[k], the next input position of comparison k
  scores,     \* driver: scores[k], the score of comparison k once ranked
  crashed,    \* driver: "no", or how the process died
  tcall       \* Type / FnDecl / whole-call specifications: the last call

vars == <<query, items, pc, generics, substs, sims, pos, scores, crashed, tcall>>

-----------------------------------------------------------------------------
(* Bounds of the model *)

MaxArity == 2
MaxCalls == 2
NumCands == 2

-----------------------------------------------------------------------------
(* Values *)

None == [k |-> "None"]
Some(x) == [k |-> "Some", v |-> x]

Equivalent == [k |-> "Discrete", d |-> "Equivalent"]
Subequal == [k |-> "Discrete", d |-> "Subequal"]
Different == [k |-> "Discrete", d |-> "Different"]

Min(a, b) == IF a < b THEN a ELSE b
Max(a, b) == IF a < b THEN b ELSE a

RECURSIVE Gcd(_, _)
Gcd(a, b) == IF b = 0 THEN a ELSE Gcd(b, a % b)

\* Continuous(n / d) as a reduced fraction; 0 / 0 is the f32 NaN.
Continuous(n, d) ==
  IF d = 0 THEN [k |-> "Continuous", num |-> 0, den |-> 0]
  ELSE [k |-> "Continuous", num |-> n \div Gcd(n, d), den |-> d \div Gcd(n, d)]

RECURSIVE Repeat(_, _)
Repeat(x, n) == IF n = 0 THEN <<>> ELSE <<x>> \o Repeat(x, n - 1)

\* A call that returned, and a call that did not.
Ok(ss, sb) == [sims |-> ss, substs |-> sb, st |-> "ok"]
Abort(how, sb) == [sims |-> <<>>, substs |-> sb, st |-> how]

\* sims.push(s) / sims.append(ss) after a call that returned.
Push(r, s) == IF r.st = "ok" THEN [r EXCEPT !.sims = Append(@, s)] ELSE r
Prepend(ss, r) == IF r.st = "ok" THEN [r EXCEPT !.sims = ss \o @] ELSE r
Extend(r, ss) == IF r.st = "ok" THEN [r EXCEPT !.sims = @ \o ss] ELSE r

-----------------------------------------------------------------------------
(* Similarities::score *)

\* The cost of one judgment, as a fraction <<num, den>>.
Cost(s) ==
  IF s.k = "Continuous" THEN <<s.num, s.den>>
  ELSE IF s.d = "Equivalent" THEN <<0, 1>>
  ELSE IF s.d = "Subequal" THEN <<1, 4>>
  ELSE <<1, 1>>

\* f32 addition on fractions; NaN (den = 0) is absorbing.
AddF(a, b) ==
  IF a[2] = 0 \/ b[2] = 0 THEN <<0, 0>>
  ELSE LET n == a[1] * b[2] + b[1] * a[2]
           d == a[2] * b[2]
       IN <<n \div Gcd(n, d), d \div Gcd(n, d)>>

RECURSIVE SumCosts(_)
SumCosts(ss) == IF ss = <<>> THEN <<0, 1>> ELSE AddF(Cost(Head(ss)), SumCosts(Tail(ss)))

\* sum / len: a fraction, or NaN when sum is NaN or when the list is empty
\* (its sum is 0.0, and 0.0 / 0.0 is NaN).
ScoreDivLen(sum, len) ==
  IF sum[2] = 0 \/ len = 0 THEN <<0, 0>>
  ELSE <<sum[1] \div Gcd(sum[1], sum[2] * len), (sum[2] * len) \div Gcd(sum[1], sum[2] * len)>>

score(ss) == ScoreDivLen(SumCosts(ss), Len(ss))

IsNaN(f) == f = <<0, 0>>

-----------------------------------------------------------------------------
(* Symbol comparator: normalized edit distance *)

RECURSIVE levenshtein(_, _)
levenshtein(a, b) ==
  IF a = <<>> THEN Len(b)
  ELSE IF b = <<>> THEN Len(a)
  ELSE IF Head(a) = Head(b) THEN levenshtein(Tail(a), Tail(b))
  ELSE 1 + Min(levenshtein(Tail(a), Tail(b)),
               Min(levenshtein(Tail(a), b), levenshtein(a, Tail(b))))

SymbolCompare(a, b) == <<Continuous(levenshtein(a, b), Max(Len(a), Len(b)))>>

\* PrimitiveType comparator.
PrimitiveCompare(q, i) == IF q = i THEN <<Equivalent>> ELSE <<Different>>


-----------------------------------------------------------------------------
(* Types.  Query-side patterns (crate::query::Type) and candidate-side     *)
(* types (rustdoc_types::Type) are records tagged by their variant k.      *)
(* An absent Option is None; a present Option of a sequence x is Some(x). *)
(* Symbols are sequences of characters.                                    *)

Primitive(n) == [k |-> "Primitive", name |-> n]
Generic(n) == [k |-> "Generic", name |-> n]
Tuple(es) == [k |-> "Tuple", elems |-> es]
Slice(t) == [k |-> "Slice", ty |-> t]
RawPointer(m, t) == [k |-> "RawPointer", mutable |-> m, ty |-> t]
BorrowedRef(m, t) == [k |-> "BorrowedRef", mutable |-> m, ty |-> t]
UnresolvedPath(n, a) == [k |-> "UnresolvedPath", name |-> n, args |-> a]
ResolvedPath(n, a) == [k |-> "ResolvedPath", name |-> n, args |-> a]
Never == [k |-> "Never"]
Array(t) == [k |-> "Array", ty |-> t]

AngleBracketed(as) == [k |-> "AngleBracketed", args |-> as]
Parenthesized == [k |-> "Parenthesized"]
TypeArg(t) == [k |-> "Type", ty |-> t]
Lifetime == [k |-> "Lifetime"]
Const == [k |-> "Const"]

EqPredicate(l, r) == [k |-> "EqPredicate", lhs |-> l, rhs |-> r]
BoundPredicate(t) == [k |-> "BoundPredicate", ty |-> t]

Generics(ps, ws) == [params |-> ps, where_predicates |-> ws]
EmptyGenerics == Generics(<<>>, <<>>)
EmptySubsts == <<>>

IsPointer(t) == t.k \in {"RawPointer", "BorrowedRef"}

-----------------------------------------------------------------------------
(* Type comparator *)

\* Lines 267-279: the rhs of the first equality predicate whose lhs is
\* Generic("Self"), or None.
RECURSIVE SelfRhs(_)
SelfRhs(ws) ==
  IF ws = <<>> THEN None
  ELSE IF Head(ws).k = "EqPredicate" /\ Head(ws).lhs = Generic("Self") THEN Head(ws).rhs
  ELSE SelfRhs(Tail(ws))

\* GenericCompare with a slip: a conflicting occurrence rebinds the parameter.
GenericCompareRebind(q, n, sb) ==
  IF n \in DOMAIN sb
  THEN IF q = sb[n] THEN Ok(<<Equivalent>>, sb) ELSE Ok(<<Different>>, (n :> q) @@ sb)
  ELSE Ok(<<Subequal>>, (n :> q) @@ sb)

\* GenericCompare with a slip: the first occurrence is a full match.
GenericCompareFreePass(q, n, sb) ==
  IF n \in DOMAIN sb
  THEN IF q = sb[n] THEN Ok(<<Equivalent>>, sb) ELSE Ok(<<Different>>, sb)
  ELSE Ok(<<Equivalent>>, (n :> q) @@ sb)

\* Lines 283-295: a candidate type parameter other than Self.
GenericCompare(q, n, sb) ==
  IF n \in DOMAIN sb
  THEN IF q = sb[n] THEN Ok(<<Equivalent>>, sb) ELSE Ok(<<Different>>, sb)
  ELSE Ok(<<Subequal>>, (n :> q) @@ sb)

\* TypeArm with a slip: the same-shape pointer arm is placed after the
\* arms for a pointer on one side, which then take its pairs.
TypeArmPointerOrder(q, i) ==
  IF i.k = "Generic" /\ i.name = "Self" THEN "self"
  ELSE IF i.k = "Generic" THEN "generic"
  ELSE IF q.k = "Tuple" /\ i.k = "Tuple" THEN "tuple"
  ELSE IF q.k = "Slice" /\ i.k = "Slice" THEN "slice"
  ELSE IF IsPointer(i) THEN "candidate_pointer"
  ELSE IF IsPointer(q) THEN "query_pointer"
  ELSE IF q.k = "UnresolvedPath" /\ i.k = "ResolvedPath" THEN "path"
  ELSE IF q.k = "Primitive" /\ i.k = "Primitive" THEN "primitive"
  ELSE "other"

\* The arm of the match at lines 265-414 that the pair (q, i) selects.
TypeArm(q, i) ==
  IF i.k = "Generic" /\ i.name = "Self" THEN "self"
  ELSE IF i.k = "Generic" THEN "generic"
  ELSE IF q.k = "Tuple" /\ i.k = "Tuple" THEN "tuple"
  ELSE IF q.k = "Slice" /\ i.k = "Slice" THEN "slice"
  ELSE IF (q.k = "RawPointer" /\ i.k = "RawPointer")
          \/ (q.k = "BorrowedRef" /\ i.k = "BorrowedRef") THEN "same_pointer"
  ELSE IF IsPointer(i) THEN "candidate_pointer"
  ELSE IF IsPointer(q) THEN "query_pointer"
  ELSE IF q.k = "UnresolvedPath" /\ i.k = "ResolvedPath" THEN "path"
  ELSE IF q.k = "Primitive" /\ i.k = "Primitive" THEN "primitive"
  ELSE "other"

\* Lines 401-406: the query gives arguments, the candidate has no list.
MissingArgs(qargs) == Repeat(Different, Len(qargs))

RECURSIVE TypeCompare(_, _, _, _, _)
RECURSIVE TupleElems(_, _, _, _, _, _)
RECURSIVE PathArgs(_, _, _, _, _, _)

\* Lines 297-302: the zipped elements of two tuples, from position idx on;
\* acc is what the earlier positions returned.
TupleElems(qs, is, idx, gen, acc, chain) ==
  IF acc.st # "ok" \/ idx > Min(Len(qs), Len(is)) THEN acc
  ELSE IF qs[idx] = None THEN TupleElems(qs, is, idx + 1, gen, acc, chain)
  ELSE TupleElems(qs, is, idx + 1, gen,
                  Prepend(acc.sims, TypeCompare(qs[idx], is[idx], gen, acc.substs, chain)),
                  chain)

\* Lines 381-396: the zipped generic arguments of two angle-bracketed lists.
PathArgs(qs, is, idx, gen, acc, chain) ==
  IF acc.st # "ok" \/ idx > Min(Len(qs), Len(is)) THEN acc
  ELSE IF qs[idx] = None THEN PathArgs(qs, is, idx + 1, gen, acc, chain)
  ELSE IF is[idx].k # "Type" THEN PathArgs(qs, is, idx + 1, gen, Push(acc, Different), chain)
  ELSE PathArgs(qs, is, idx + 1, gen,
                Prepend(acc.sims, TypeCompare(qs[idx].ty, is[idx].ty, gen, acc.substs, chain)),
                chain)

\* Lines 257-415.  chain holds the calls (q, i, substs) that are on the call
\* stack: the comparator is deterministic in them, so a call that is already
\* on the stack recurses without end and the stack overflows.
TypeCompare(q, i, gen, sb, chain) ==
  LET call == <<q, i, sb>>
      ch == chain \cup {call}
      arm == TypeArm(q, i)
  IN
  IF call \in chain THEN Abort("overflow", sb)
  ELSE IF arm = "self" THEN
    LET rhs == SelfRhs(gen.where_predicates)
    IN IF rhs = None THEN Abort("panic", sb) ELSE TypeCompare(q, rhs, gen, sb, ch)
  ELSE IF arm = "generic" THEN GenericCompare(q, i.name, sb)
  ELSE IF arm = "tuple" THEN
    LET es == TupleElems(q.elems, i.elems, 1, gen, Ok(<<>>, sb), ch)
        abs_diff == Max(Len(q.elems), Len(i.elems)) - Min(Len(q.elems), Len(i.elems))
    IN IF es.st = "ok"
       THEN Ok(es.sims \o <<Equivalent>> \o Repeat(Different, abs_diff), es.substs)
       ELSE es
  ELSE IF arm = "slice" THEN
    IF q.ty = None THEN Ok(<<Equivalent>>, sb)
    ELSE Prepend(<<Equivalent>>, TypeCompare(q.ty, i.ty, gen, sb, ch))
  ELSE IF arm = "same_pointer" THEN
    IF q.mutable = i.mutable THEN TypeCompare(q.ty, i.ty, gen, sb, ch)
    ELSE Push(TypeCompare(q.ty, i.ty, gen, sb, ch), Subequal)
  ELSE IF arm = "candidate_pointer" THEN Push(TypeCompare(q, i.ty, gen, sb, ch), Subequal)
  ELSE IF arm = "query_pointer" THEN Push(TypeCompare(q.ty, i, gen, sb, ch), Subequal)
  ELSE IF arm = "path" THEN
    LET name == Ok(SymbolCompare(q.name, i.name), sb)
    IN IF q.args = None THEN name
       ELSE IF i.args = None THEN Ok(name.sims \o MissingArgs(q.args.args), sb)
       ELSE IF i.args.k = "AngleBracketed" THEN PathArgs(q.args.args, i.args.args, 1, gen, name, ch)
       ELSE name
  ELSE IF arm = "primitive" THEN Ok(PrimitiveCompare(q.name, i.name), sb)
  ELSE Ok(<<Different>>, sb)

-----------------------------------------------------------------------------
(* Declaration comparators.  A query Argument is [name, ty], a candidate   *)
(* input is <<name, type>>; a query FnDecl is [inputs, output], a          *)
(* candidate FnDecl is [inputs, output]; absent Options are None.          *)

Argument(n, t) == [name |-> n, ty |-> t]
Return(t) == [k |-> "Return", ty |-> t]
DefaultReturn == [k |-> "DefaultReturn"]
FnDecl(ins, out) == [inputs |-> ins, output |-> out]
Function(d, g) == [k |-> "Function", decl |-> d, generics |-> g]
Method(d, g) == [k |-> "Method", decl |-> d, generics |-> g]
Struct == [k |-> "Struct"]
FunctionQuery(d) == [k |-> "FunctionQuery", decl |-> d]
Query(n, kd) == [name |-> n, kind |-> kd]
Item(n, in) == [name |-> n, inner |-> in]

\* Lines 217-236.
ArgumentCompare(a, arg, gen, sb) ==
  LET nm == IF a.name = None THEN <<>> ELSE SymbolCompare(a.name.v, arg[1])
  IN IF a.ty = None THEN Ok(nm, sb)
     ELSE Prepend(nm, TypeCompare(a.ty, arg[2], gen, sb, {}))

\* Lines 241-252.
FnRetTyCompare(o, ret, gen, sb) ==
  IF o.k = "Return" /\ ret # None THEN TypeCompare(o.ty, ret, gen, sb, {})
  ELSE IF o.k = "DefaultReturn" /\ ret = None THEN Ok(<<Equivalent>>, sb)
  ELSE Ok(<<Different>>, sb)

\* Lines 190-192: the query input at position idx.
InputCompare(ins, dins, idx, gen, sb) ==
  IF idx <= Len(dins) THEN ArgumentCompare(ins[idx], dins[idx], gen, sb)
  ELSE Ok(<<>>, sb)

\* InputsTail with a slip: no judgment for two empty input lists.
InputsTailSilent(n, m) ==
  IF n # m THEN Repeat(Different, Max(n, m) - Min(n, m)) ELSE <<>>

\* Lines 195-202: what follows the pairwise judgments, for n query inputs
\* and m candidate inputs.
InputsTail(n, m) ==
  IF n # m THEN Repeat(Different, Max(n, m) - Min(n, m))
  ELSE IF n = 0 /\ m = 0 THEN <<Equivalent>>
  ELSE <<>>

\* Lines 189-193: the query inputs from position idx on.
RECURSIVE InputsCompare(_, _, _, _, _)
InputsCompare(ins, dins, idx, gen, acc) ==
  IF acc.st # "ok" \/ idx > Len(ins) THEN acc
  ELSE InputsCompare(ins, dins, idx + 1, gen,
                     Prepend(acc.sims, InputCompare(ins, dins, idx, gen, acc.substs)))

\* Lines 180-212.
FnDeclCompare(d, decl, gen, sb) ==
  LET ins == IF d.inputs = None THEN Ok(<<>>, sb)
             ELSE Extend(InputsCompare(d.inputs.v, decl.inputs, 1, gen, Ok(<<>>, sb)),
                         InputsTail(Len(d.inputs.v), Len(decl.inputs)))
  IN IF ins.st # "ok" \/ d.output = None THEN ins
     ELSE Prepend(ins.sims, FnRetTyCompare(d.output, decl.output, gen, ins.substs))

\* Lines 152-157 and 170-173: the candidate's generics appended to the context.
MergeGenerics(gen, g) ==
  Generics(gen.params \o g.params, gen.where_predicates \o g.where_predicates)

\* Lines 146-159 and 164-175.
FunctionCompare(f, function, gen, sb) ==
  FnDeclCompare(f.decl, function.decl, MergeGenerics(gen, function.generics), sb)

\* Lines 127-141.
QueryKindCompare(kd, inner, gen, sb) ==
  IF inner.k \in {"Function", "Method"} THEN FunctionCompare(kd, inner, gen, sb)
  ELSE Ok(<<Different>>, sb)

\* Lines 94-98.
NameCompare(qn, iname) ==
  IF qn # None /\ iname # None THEN SymbolCompare(qn.v, iname.v)
  ELSE IF qn # None THEN <<Different>>
  ELSE <<>>

\* Lines 86-107.
QueryCompare(q, item, gen, sb) ==
  LET nm == NameCompare(q.name, item.name)
  IN IF q.kind = None THEN Ok(nm, sb)
     ELSE Prepend(nm, QueryKindCompare(q.kind, item.inner, gen, sb))

-----------------------------------------------------------------------------
(* Inputs of the Type comparator *)

Vec == <<"V", "e", "c">>
Ve == <<"V", "e">>
I32 == Primitive("i32")
Bool == Primitive("bool")

\* The sequences over S of length at most n.
SeqsUpTo(S, n) == UNION {[1..m -> S] : m \in 0..n}

QAtoms == {I32, Bool, Generic("T"), Generic("Self"), UnresolvedPath(Vec, None)}
QTuples == {Tuple(es) : es \in SeqsUpTo({None, I32, Bool}, MaxArity)}
QSlices == {Slice(None), Slice(I32)}
QPointers ==
  {RawPointer(m, I32) : m \in BOOLEAN} \cup {BorrowedRef(m, I32) : m \in BOOLEAN}
    \cup {BorrowedRef(FALSE, Generic("T")), BorrowedRef(FALSE, BorrowedRef(FALSE, I32)),
          RawPointer(FALSE, BorrowedRef(TRUE, Bool))}
QPaths ==
  {UnresolvedPath(Vec, AngleBracketed(as)) :
     as \in SeqsUpTo({None, TypeArg(I32), TypeArg(Bool)}, MaxArity)}
    \cup {UnresolvedPath(Ve, None), UnresolvedPath(Ve, AngleBracketed(<<TypeArg(I32)>>))}
QTypes == QAtoms \cup QTuples \cup QSlices \cup QPointers \cup QPaths

CGenerics == {Generic("T"), Generic("U"), Generic("Self")}
CPlain == {I32, Bool, Never, ResolvedPath(Vec, None)}
CTuples == {Tuple(es) : es \in SeqsUpTo({I32, Generic("T")}, MaxArity)}
CSlices == {Slice(I32), Slice(Generic("T")), Array(I32)}
CPointers ==
  {RawPointer(m, I32) : m \in BOOLEAN} \cup {BorrowedRef(m, I32) : m \in BOOLEAN}
    \cup {BorrowedRef(FALSE, Generic("T")), RawPointer(FALSE, RawPointer(FALSE, I32)),
          BorrowedRef(TRUE, Generic("Self"))}
CPaths ==
  {ResolvedPath(Vec, AngleBracketed(as)) :
     as \in SeqsUpTo({TypeArg(I32), TypeArg(Generic("T")), Lifetime}, MaxArity)}
    \cup {ResolvedPath(Vec, Parenthesized)}
CTypes == CGenerics \cup CPlain \cup CTuples \cup CSlices \cup CPointers \cup CPaths

\* The calls of the Type comparator that are tried.
TypePairs ==
  ((QAtoms \cup QPointers) \X CGenerics) \cup (QTypes \X CPlain) \cup (QAtoms \X CTypes)
    \cup (QTuples \X CTuples) \cup (QSlices \X CSlices) \cup (QPointers \X CPointers)
    \cup (QPaths \X CPaths)

\* The later calls of a sequence: the candidate's type parameters again.
LaterPairs ==
  {I32, Bool, Generic("T"), BorrowedRef(FALSE, I32), Tuple(<<I32, Bool>>), Tuple(<<I32, I32>>)}
    \X {Generic("T"), Generic("U"), Generic("Self"), Tuple(<<Generic("T"), Generic("T")>>),
        BorrowedRef(FALSE, Generic("T")), I32}

\* The generics contexts the calls run in.
TypeGenerics ==
  {EmptyGenerics,
   Generics(<<>>, <<BoundPredicate(Generic("T")),
                    EqPredicate(Generic("Self"), ResolvedPath(Vec, AngleBracketed(<<TypeArg(Generic("T"))>>)))>>),
   Generics(<<>>, <<EqPredicate(Generic("T"), I32), EqPredicate(Generic("Self"), Generic("T")),
                    EqPredicate(Generic("Self"), Bool)>>),
   Generics(<<>>, <<EqPredicate(Generic("Self"), Generic("Self"))>>),
   Generics(<<>>, <<EqPredicate(Generic("Self"), BorrowedRef(FALSE, Generic("Self")))>>)}

-----------------------------------------------------------------------------
(* The driver's variables when a specification does not use them *)

DriverIdle ==
  /\ query = None
  /\ items = <<>>
  /\ pc = <<>>
  /\ generics = <<>>
  /\ substs = <<>>
  /\ sims = <<>>
  /\ pos = <<>>
  /\ scores = <<>>
  /\ crashed = "no"

driverVars == <<query, items, pc, generics, substs, sims, pos, scores, crashed>>

-----------------------------------------------------------------------------
(* SpecType: calls of the Type comparator that share one generics context  *)
(* and one substitution map, as the calls made within one compare do.      *)
(* tcall holds the last call: its arguments, the map before it (pre), and  *)
(* what it returned.                                                       *)

TypeInit ==
  /\ DriverIdle
  /\ tcall \in {[n |-> 0, gen |-> g, q |-> None, i |-> None, pre |-> EmptySubsts,
                 sims |-> <<>>, substs |-> EmptySubsts, st |-> "ok"] : g \in TypeGenerics}

TypeCall(q, i) ==
  /\ tcall.st = "ok"
  /\ tcall.n < MaxCalls
  /\ LET r == TypeCompare(q, i, tcall.gen, tcall.substs, {})
     IN tcall' = [n |-> tcall.n + 1, gen |-> tcall.gen, q |-> q, i |-> i,
                  pre |-> tcall.substs, sims |-> r.sims, substs |-> r.substs, st |-> r.st]
  /\ UNCHANGED driverVars

TypeNext ==
  \E p \in (IF tcall.n = 0 THEN TypePairs ELSE LaterPairs) : TypeCall(p[1], p[2])

SpecType == TypeInit /\ [][TypeNext]_vars

-----------------------------------------------------------------------------
(* SpecDecl: one call of the declaration comparator *)

ArgX == <<"x">>
ArgY == <<"y">>

DeclQueries ==
  {FnDecl(ins, out) :
     ins \in {None} \cup
               {Some(as) : as \in SeqsUpTo({Argument(None, None), Argument(None, I32),
                                            Argument(Some(ArgX), Bool)}, MaxArity)},
     out \in {None, DefaultReturn, Return(I32)}}

DeclCandidates ==
  {FnDecl(ins, out) :
     ins \in SeqsUpTo({<<ArgX, I32>>, <<ArgY, Generic("T")>>}, MaxArity),
     out \in {None, I32}}

DeclInit ==
  /\ DriverIdle
  /\ tcall \in {[n |-> 0, d |-> d, decl |-> c, sims |-> <<>>, substs |-> EmptySubsts, st |-> "ok"] :
                  d \in DeclQueries, c \in DeclCandidates}

DeclCall ==
  /\ tcall.n = 0
  /\ LET r == FnDeclCompare(tcall.d, tcall.decl, EmptyGenerics, EmptySubsts)
     IN tcall' = [tcall EXCEPT !.n = 1, !.sims = r.sims, !.substs = r.substs, !.st = r.st]
  /\ UNCHANGED driverVars

SpecDecl == DeclInit /\ [][DeclCall]_vars

-----------------------------------------------------------------------------
(* Spec: a driver that compares one query with NumCands candidates, each   *)
(* comparison with a generics context and a substitution map of its own,   *)
(* the comparisons interleaved at the granularity of the declaration       *)
(* comparator's loop.                                                      *)

Cands == 1..NumCands

NamePush == <<"p", "u", "s", "h">>
NameAdd == <<"a", "d", "d">>
NameSelf == <<"S", "e", "l", "f">>
VecT == ResolvedPath(Vec, AngleBracketed(<<TypeArg(Generic("T"))>>))

FnQuery(n, ins, out) == Query(n, FunctionQuery(FnDecl(ins, out)))
Args2(a, b) == Some(<<Argument(None, a), Argument(None, b)>>)

QueryTTT ==
  FnQuery(None, Args2(Generic("T"), Generic("T")), Return(Generic("T")))
QueryInts == FnQuery(None, Args2(I32, I32), Return(I32))
QueryIntBool == FnQuery(None, Args2(I32, Bool), Return(I32))
QueryPush ==
  FnQuery(Some(NamePush), Args2(BorrowedRef(TRUE, Generic("Self")), Generic("T")),
          DefaultReturn)
QueryPushPath ==
  FnQuery(Some(NamePush), Args2(BorrowedRef(TRUE, UnresolvedPath(NameSelf, None)), Generic("T")),
          DefaultReturn)
QueryNothing == Query(None, None)
QueryAnyFn == FnQuery(None, None, None)

Queries ==
  {QueryTTT, QueryInts, QueryIntBool, QueryPush, QueryPushPath, QueryNothing, QueryAnyFn}

FnItem(n, ins, out, g) == Item(Some(n), Function(FnDecl(ins, out), g))
MethodItem(n, ins, out, g) == Item(Some(n), Method(FnDecl(ins, out), g))

ItemInts == FnItem(NameAdd, <<<<ArgX, I32>>, <<ArgY, I32>>>>, I32, EmptyGenerics)
ItemIntBool == FnItem(NameAdd, <<<<ArgX, I32>>, <<ArgY, Bool>>>>, I32, EmptyGenerics)
ItemTTT ==
  FnItem(NameAdd, <<<<ArgX, Generic("T")>>, <<ArgY, Generic("T")>>>>, Generic("T"),
         Generics(<<"T">>, <<>>))
ItemPush ==
  MethodItem(NamePush, <<<<ArgX, BorrowedRef(TRUE, Generic("Self"))>>, <<ArgY, Generic("T")>>>>,
             None, Generics(<<"T">>, <<EqPredicate(Generic("Self"), VecT)>>))
ItemNoSelf ==
  MethodItem(NamePush, <<<<ArgX, BorrowedRef(TRUE, Generic("Self"))>>, <<ArgY, I32>>>>,
             None, Generics(<<>>, <<BoundPredicate(Generic("Self"))>>))
ItemSelfIsSelf ==
  MethodItem(NamePush, <<<<ArgX, Generic("Self")>>>>, None,
             Generics(<<>>, <<EqPredicate(Generic("Self"), Generic("Self"))>>))
ItemSelfIsRef ==
  MethodItem(NamePush, <<<<ArgX, I32>>, <<ArgY, Generic("Self")>>>>, None,
             Generics(<<>>, <<EqPredicate(Generic("Self"), BorrowedRef(FALSE, Generic("Self")))>>))
ItemStruct == Item(Some(Vec), Struct)

Items ==
  {ItemInts, ItemIntBool, ItemTTT, ItemPush, ItemNoSelf, ItemSelfIsSelf, ItemSelfIsRef,
   ItemStruct}

IsCallable(item) == item.inner.k \in {"Function", "Method"}

\* Slot with a slip: one context instance serves every comparison.
SlotShared(k) == 1

\* The generics and substs arguments of comparison k (lines 79-80): the
\* context instance k is given, one of its own.
Slot(k) == k

Init ==
  /\ query \in Queries
  /\ items \in [Cands -> Items]
  /\ pc = [k \in Cands |-> "idle"]
  /\ generics = [k \in Cands |-> EmptyGenerics]
  /\ substs = [k \in Cands |-> EmptySubsts]
  /\ sims = [k \in Cands |-> <<>>]
  /\ pos = [k \in Cands |-> 0]
  /\ scores = [k \in Cands |-> None]
  /\ crashed = "no"
  /\ tcall = None

\* compare is entered with a fresh context: lines 92-103, and through the
\* kind comparator (136-140) into the function comparator (152-157).
Start(k) ==
  /\ crashed = "no"
  /\ pc[k] = "idle"
  /\ LET into == query.kind # None /\ IsCallable(items[k])
     IN /\ sims' = [sims EXCEPT ![k] =
                      NameCompare(query.name, items[k].name)
                        \o (IF query.kind # None /\ ~into THEN <<Different>> ELSE <<>>)]
        /\ generics' = [generics EXCEPT ![Slot(k)] =
                          IF into THEN MergeGenerics(EmptyGenerics, items[k].inner.generics)
                          ELSE EmptyGenerics]
        /\ pc' = [pc EXCEPT ![k] = IF into THEN "decl" ELSE "done"]
  /\ substs' = [substs EXCEPT ![Slot(k)] = EmptySubsts]
  /\ pos' = [pos EXCEPT ![k] = 1]
  /\ UNCHANGED <<query, items, scores, crashed, tcall>>

\* What a comparator call r leaves behind in comparison k, whose next
\* position is next: its judgments and bindings, or the death of the process.
After(k, r, next) ==
  /\ sims' = [sims EXCEPT ![k] = IF r.st = "ok" THEN @ \o r.sims ELSE @]
  /\ substs' = [substs EXCEPT ![Slot(k)] = r.substs]
  /\ pc' = [pc EXCEPT ![k] = IF r.st = "ok" THEN next ELSE r.st]
  /\ crashed' = IF r.st = "ok" THEN crashed ELSE r.st

\* One round of the loop at lines 189-193.
Input(k) ==
  /\ crashed = "no"
  /\ pc[k] = "decl"
  /\ query.kind.decl.inputs # None
  /\ pos[k] <= Len(query.kind.decl.inputs.v)
  /\ After(k, InputCompare(query.kind.decl.inputs.v, items[k].inner.decl.inputs, pos[k],
                           generics[Slot(k)], substs[Slot(k)]), "decl")
  /\ pos' = [pos EXCEPT ![k] = @ + 1]
  /\ UNCHANGED <<query, items, generics, scores, tcall>>

\* Lines 195-211: the arity judgments and the return type.
Finish(k) ==
  /\ crashed = "no"
  /\ pc[k] = "decl"
  /\ IF query.kind.decl.inputs = None THEN TRUE
     ELSE pos[k] > Len(query.kind.decl.inputs.v)
  /\ LET d == query.kind.decl
         decl == items[k].inner.decl
         tl == IF d.inputs = None THEN <<>> ELSE InputsTail(Len(d.inputs.v), Len(decl.inputs))
     IN After(k, IF d.output = None THEN Ok(tl, substs[Slot(k)])
                 ELSE Prepend(tl, FnRetTyCompare(d.output, decl.output, generics[Slot(k)],
                                                 substs[Slot(k)])),
              "done")
  /\ UNCHANGED <<query, items, generics, pos, scores, tcall>>

\* The driver scores the judgments compare returned.
Rank(k) ==
  /\ crashed = "no"
  /\ pc[k] = "done"
  /\ scores' = [scores EXCEPT ![k] = Some(score(sims[k]))]
  /\ pc' = [pc EXCEPT ![k] = "ranked"]
  /\ UNCHANGED <<query, items, generics, substs, sims, pos, crashed, tcall>>

Next == \E k \in Cands : Start(k) \/ Input(k) \/ Finish(k) \/ Rank(k)

Spec == Init /\ [][Next]_vars

-----------------------------------------------------------------------------
(* Claims about the Type comparator, under SpecType *)

\* The candidate type parameter a call meets at its top: the candidate type
\* itself, or what the Self marker resolves to.
MetParam(c) ==
  IF c.i.k = "Generic" /\ c.i.name # "Self" THEN c.i.name
  ELSE IF c.i = Generic("Self") /\ SelfRhs(c.gen.where_predicates).k = "Generic"
          /\ SelfRhs(c.gen.where_predicates).name # "Self"
       THEN SelfRhs(c.gen.where_predicates).name
  ELSE ""

\* C1: for a candidate type parameter N other than Self, the first call that
\* meets N returns exactly [Subequal] and binds N to the query pattern; a
\* later call that meets N returns exactly [Equivalent] when the query
\* pattern equals the bound one and exactly [Different] otherwise, and leaves
\* the map as it is; no call changes or removes an existing binding (also
\* when N is met inside a tuple, where both occurrences are judged in order).
C1_GenericUnification ==
  (tcall.n > 0 /\ tcall.st = "ok") =>
    /\ \A n \in DOMAIN tcall.pre :
         n \in DOMAIN tcall.substs /\ tcall.substs[n] = tcall.pre[n]
    /\ MetParam(tcall) # "" =>
         IF MetParam(tcall) \in DOMAIN tcall.pre
         THEN /\ tcall.sims = IF tcall.q = tcall.pre[MetParam(tcall)]
                              THEN <<Equivalent>> ELSE <<Different>>
              /\ tcall.substs = tcall.pre
         ELSE /\ tcall.sims = <<Subequal>>
              /\ DOMAIN tcall.substs = DOMAIN tcall.pre \cup {MetParam(tcall)}
              /\ tcall.substs[MetParam(tcall)] = tcall.q
    /\ (/\ tcall.i = Tuple(<<Generic("T"), Generic("T")>>)
        /\ tcall.q.k = "Tuple" /\ Len(tcall.q.elems) = 2
        /\ None \notin {tcall.q.elems[1], tcall.q.elems[2]}
        /\ "T" \notin DOMAIN tcall.pre) =>
         /\ tcall.sims = <<Subequal,
                           IF tcall.q.elems[2] = tcall.q.elems[1] THEN Equivalent ELSE Different,
                           Equivalent>>
         /\ tcall.substs["T"] = tcall.q.elems[1]

\* A later occurrence of T that conflicts with the pattern bound to T.
C1_Witness ==
  /\ tcall.n = 2 /\ tcall.st = "ok"
  /\ tcall.i = Generic("T") /\ "T" \in DOMAIN tcall.pre
  /\ tcall.q # tcall.pre["T"]
  /\ tcall.sims = <<Different>>

\* The pairs the rules of the Type comparator cover, as the rules are
\* stated: Self, generic variable, tuple, slice, same-shape pointer or
\* reference, exactly one side a pointer or reference, path, primitive.
RuleCovered(q, i) ==
  \/ i.k = "Generic"
  \/ q.k = "Tuple" /\ i.k = "Tuple"
  \/ q.k = "Slice" /\ i.k = "Slice"
  \/ q.k = "RawPointer" /\ i.k = "RawPointer"
  \/ q.k = "BorrowedRef" /\ i.k = "BorrowedRef"
  \/ IsPointer(q) /\ ~IsPointer(i)
  \/ ~IsPointer(q) /\ IsPointer(i)
  \/ q.k = "UnresolvedPath" /\ i.k = "ResolvedPath"
  \/ q.k = "Primitive" /\ i.k = "Primitive"

\* C7: a pair that no rule covers returns exactly one Different; so do a
\* query reference against a candidate raw pointer and a query raw pointer
\* against a candidate reference.
C7_UncoveredIsDifferent ==
  (tcall.n > 0 /\ tcall.st = "ok" /\ ~RuleCovered(tcall.q, tcall.i)) =>
    tcall.sims = <<Different>>

\* The argument judgments of two angle-bracketed lists as C8 states them:
\* a wildcard adds nothing, a pattern with a candidate type argument at its
\* position is compared with it, any other pattern adds one Different.
RECURSIVE StatedArgs(_, _, _, _, _)
StatedArgs(qs, is, idx, gen, acc) ==
  IF acc.st # "ok" \/ idx > Len(qs) THEN acc
  ELSE IF qs[idx] = None THEN StatedArgs(qs, is, idx + 1, gen, acc)
  ELSE IF idx <= Len(is) /\ is[idx].k = "Type"
       THEN StatedArgs(qs, is, idx + 1, gen,
                       Prepend(acc.sims, TypeCompare(qs[idx].ty, is[idx].ty, gen, acc.substs, {})))
  ELSE StatedArgs(qs, is, idx + 1, gen, Push(acc, Different))

\* C8: for a query UnresolvedPath against a candidate ResolvedPath the
\* judgments are the name judgment, then: nothing when the query gives no
\* argument list; one Different per query argument when the candidate has
\* no list; and for two angle-bracketed lists the positional judgments, one
\* Different for every pattern without a candidate type argument to match,
\* nothing for a wildcard.
C8_PathArguments ==
  (tcall.n = 1 /\ tcall.st = "ok" /\ tcall.q.k = "UnresolvedPath" /\ tcall.i.k = "ResolvedPath") =>
    LET nm == SymbolCompare(tcall.q.name, tcall.i.name)
    IN IF tcall.q.args = None THEN tcall.sims = nm
       ELSE IF tcall.i.args = None
            THEN tcall.sims = nm \o Repeat(Different, Len(tcall.q.args.args))
       ELSE IF tcall.i.args.k = "AngleBracketed"
            THEN tcall.sims = StatedArgs(tcall.q.args.args, tcall.i.args.args, 1, tcall.gen,
                                         Ok(nm, tcall.pre)).sims
       ELSE TRUE

-----------------------------------------------------------------------------
(* Claims about the declaration comparator, under SpecDecl *)

\* The pairwise judgments of the positions idx..upto, in order.
RECURSIVE StatedInputs(_, _, _, _, _)
StatedInputs(ins, dins, idx, upto, acc) ==
  IF idx > upto THEN acc
  ELSE StatedInputs(ins, dins, idx + 1, upto,
                    Prepend(acc.sims, ArgumentCompare(ins[idx], dins[idx], EmptyGenerics,
                                                      acc.substs)))

\* C9: with n query input patterns and m candidate inputs, the judgments
\* are those of the first min(n, m) positions pairwise in order, then
\* |n - m| Different when n # m, one Equivalent when n = m = 0 and nothing
\* when n = m > 0 (then the return-type judgments); when the query omits
\* the input list no input judgment is produced, whatever m is.
C9_InputArity ==
  tcall.n = 1 =>
    LET m == Len(tcall.decl.inputs)
        out(sb) == IF tcall.d.output = None THEN <<>>
                   ELSE FnRetTyCompare(tcall.d.output, tcall.decl.output, EmptyGenerics, sb).sims
    IN /\ tcall.st = "ok"
       /\ IF tcall.d.inputs = None THEN tcall.sims = out(EmptySubsts)
          ELSE LET n == Len(tcall.d.inputs.v)
                   pw == StatedInputs(tcall.d.inputs.v, tcall.decl.inputs, 1,
                                      IF n < m THEN n ELSE m, Ok(<<>>, EmptySubsts))
                   extra == IF n > m THEN Repeat(Different, n - m)
                            ELSE IF m > n THEN Repeat(Different, m - n)
                            ELSE IF n = 0 THEN <<Equivalent>>
                            ELSE <<>>
               IN tcall.sims = pw.sims \o extra \o out(pw.substs)

\* Two query patterns against one candidate input: the judgments of the
\* first position, then one Different.
C9_Witness ==
  /\ tcall.n = 1
  /\ tcall.d.inputs # None /\ tcall.d.output = None
  /\ Len(tcall.d.inputs.v) = 2 /\ Len(tcall.decl.inputs) = 1
  /\ tcall.d.inputs.v[1].ty # None
  /\ Len(tcall.sims) >= 2
  /\ tcall.sims[Len(tcall.sims)] = Different

-----------------------------------------------------------------------------
(* Claims about whole comparisons, under Spec *)

Returned(k) == pc[k] \in {"done", "ranked"}

\* Whether the where-predicates of candidate k bind Self by an equality.
SelfBound(k) ==
  IsCallable(items[k]) /\ SelfRhs(items[k].inner.generics.where_predicates) # None

\* C2: a candidate whose type is the Self marker, with no equality predicate
\* binding Self, ends its comparison in a recoverable failure: the
\* comparison does not crash, and the other candidates can still be compared.
C2_UnresolvedSelfRecoverable ==
  \A k \in Cands : (IsCallable(items[k]) /\ ~SelfBound(k)) => pc[k] # "panic"

\* C3: the query fn(T, T) -> T, T a query-side Generic, against the candidate
\* fn(i32, i32) -> i32 is judged Subequal then Equivalent, Equivalent; against
\* fn(i32, bool) -> i32 its second occurrence is judged Different after the
\* binding Subequal.
C3_QueryGenericConsistency ==
  \A k \in Cands : (Returned(k) /\ query = QueryTTT) =>
    /\ items[k] = ItemInts => sims[k] = <<Subequal, Equivalent, Equivalent>>
    /\ items[k] = ItemIntBool => (sims[k][1] = Subequal /\ sims[k][2] = Different)

\* C3 as amended: the type parameter is the candidate's.  The query
\* fn(i32, i32) -> i32 against the candidate fn(T, T) -> T is judged
\* Subequal (T bound to i32) then Equivalent, Equivalent; the query
\* fn(i32, bool) -> i32 against it is judged Subequal, Different, Equivalent;
\* the query fn(T, T) -> T against the candidates fn(i32, i32) -> i32 and
\* fn(i32, bool) -> i32 is judged Different three times and binds nothing.
C3_CandidateGenericConsistency ==
  \A k \in Cands : Returned(k) =>
    /\ (query = QueryInts /\ items[k] = ItemTTT) =>
         (sims[k] = <<Subequal, Equivalent, Equivalent>> /\ substs[k] = ("T" :> I32))
    /\ (query = QueryIntBool /\ items[k] = ItemTTT) =>
         (sims[k] = <<Subequal, Different, Equivalent>> /\ substs[k] = ("T" :> I32))
    /\ (query = QueryTTT /\ items[k] \in {ItemInts, ItemIntBool}) =>
         (sims[k] = <<Different, Different, Different>> /\ substs[k] = EmptySubsts)

\* The conflicting second occurrence of the candidate's T has been judged.
C3_Witness ==
  /\ query = QueryIntBool /\ items[1] = ItemTTT /\ Returned(1)
  /\ sims[1][2] = Different

\* C4: the push query against the method push(&mut self, value: T) with
\* Self = Vec<T> and no return type: the name judgment is Continuous(0) and
\* no judgment is Different.
C4_PushNoDifferent ==
  \A k \in Cands : (Returned(k) /\ query = QueryPush /\ items[k] = ItemPush) =>
    /\ sims[k][1] = Continuous(0, 1)
    /\ \A j \in 1..Len(sims[k]) : sims[k][j] # Different

\* C4 as amended (the query's Self is the pattern Generic("Self")): the
\* judgments are Continuous(0) for the name, Different for the query's Self
\* against the resolved Vec<T>, Subequal for T (bound to the query's T) and
\* Equivalent for the absent return type; the score is 5/16.  With the
\* query's Self written as the path Self, the second judgment is the name
\* judgment Continuous(3/4) of Self against Vec, and the score is 1/4.
C4_PushJudgments ==
  \A k \in Cands : (Returned(k) /\ items[k] = ItemPush) =>
    /\ query = QueryPush =>
         /\ sims[k] = <<Continuous(0, 1), Different, Subequal, Equivalent>>
         /\ substs[k] = ("T" :> Generic("T"))
         /\ pc[k] = "ranked" => scores[k].v = <<5, 16>>
    /\ query = QueryPushPath =>
         /\ sims[k] = <<Continuous(0, 1), Continuous(3, 4), Subequal, Equivalent>>
         /\ substs[k] = ("T" :> Generic("T"))
         /\ pc[k] = "ranked" => scores[k].v = <<1, 4>>

\* The push comparison has been made and scored.
C4_Witness == query = QueryPush /\ items[1] = ItemPush /\ pc[1] = "ranked"

\* C5: the score of every judgment list compare returns is a defined
\* number, the empty list included.
C5_ScoreDefined == \A k \in Cands : pc[k] = "ranked" => ~IsNaN(scores[k].v)

\* C6: each comparison having a context of its own, the judgments of a
\* candidate are those of its comparison made alone with a fresh context,
\* however the other comparisons are interleaved with it; its generics
\* context holds its own candidate's generics and nothing else; and it
\* fails exactly when the comparison made alone fails.
C6_CallScopedState ==
  \A k \in Cands :
    LET alone == QueryCompare(query, items[k], EmptyGenerics, EmptySubsts)
    IN /\ Returned(k) => (alone.st = "ok" /\ sims[k] = alone.sims /\ substs[k] = alone.substs)
       /\ pc[k] \in {"panic", "overflow"} => alone.st = pc[k]
       /\ pc[k] = "decl" => generics[k] = items[k].inner.generics
       /\ pc[k] = "idle" => (generics[k] = EmptyGenerics /\ substs[k] = EmptySubsts)

\* Two comparisons under way at once, with different bindings of T.
C6_Witness ==
  /\ pc[1] = "decl" /\ pc[2] = "decl" /\ pos[1] = 3 /\ pos[2] = 3
  /\ "T" \in DOMAIN substs[1] /\ "T" \in DOMAIN substs[2]
  /\ substs[1]["T"] # substs[2]["T"]

\* C10: the comparison of a candidate whose where-predicates bind Self by
\* an equality predicate terminates: it does not recurse without end.
C10_SelfResolutionTerminates ==
  \A k \in Cands : SelfBound(k) => pc[k] # "overflow"

=============================================================================
